---- MODULE Spec2Model ----
(***************************************************************************)
(* Model of src/main.py: the weighted ballot Profile, the STV elimination  *)
(* rule, the forced-survival analysis and the coalition search.            *)
(*                                                                         *)
(* A ballot entry [votes, ranks] of the source is the pair <<votes, ranks>>*)
(* (Python index 0 and 1 are the tuple's [1] and [2]); a Profile's ballots *)
(* list is a sequence of such pairs.                                       *)
(***************************************************************************)
EXTENDS Integers, Sequences, FiniteSets, TLC

\* ---- bounds of the model -------------------------------------------------
\* candidates are 1..NumCandidates (the source runs with num_candidates = 11)
NumCandidates == 3
\* number of ballot entries of an input profile
MaxLen == 2
\* largest weight of an input ballot entry
MaxWeight == 2
\* number of entries of a coalition handed to apply_coalition directly
MaxCoalitionLen == 1

Candidates == 1..NumCandidates

\* rankings: a first preference, optionally followed by a second one, or empty
Rankings ==
    {r \in UNION {[1..k -> Candidates] : k \in {0, 1, 2}} :
        \A i, j \in DOMAIN r : i # j => r[i] # r[j]}

Entries == (1..MaxWeight) \X Rankings

Profiles == UNION {[1..k -> Entries] : k \in 0..MaxLen}

\* the profiles searched by new_algorithm: the profiles above, and those of one
\* entry more in which every voter names at most one candidate
BulletRankings == {r \in Rankings : Len(r) <= 1}

SearchProfiles ==
    Profiles \cup [1..(MaxLen + 1) -> (1..MaxWeight) \X BulletRankings]

Coalitions == UNION {[1..k -> Entries] : k \in 0..MaxCoalitionLen}

\* sizes handed to take_n: 0, every size up to the largest total weight, one more
TakeSizes == 0..(MaxLen * MaxWeight + 1)

\* ---- helpers ---------------------------------------------------------------
MinOf(S) == CHOOSE x \in S : \A y \in S : x <= y

MaxOf(S) == CHOOSE x \in S : \A y \in S : x >= y

SeqRange(s) == {s[i] : i \in DOMAIN s}

\* Profile.__len__: the total weight of the ballots
RECURSIVE profile_len(_)
profile_len(ballots) ==
    IF ballots = <<>> THEN 0
    ELSE Head(ballots)[1] + profile_len(Tail(ballots))

\* the inner loop of plurality_scores: the first candidate of the ranking that
\* is active, 0 when the ranking names no active candidate
RECURSIVE first_active(_, _)
first_active(ranking, active) ==
    IF ranking = <<>> THEN 0
    ELSE IF Head(ranking) \in active THEN Head(ranking)
    ELSE first_active(Tail(ranking), active)

RECURSIVE votes_for(_, _, _)
votes_for(ballots, active, c) ==
    IF ballots = <<>> THEN 0
    ELSE (IF first_active(Head(ballots)[2], active) = c THEN Head(ballots)[1] ELSE 0)
         + votes_for(Tail(ballots), active, c)

\* Profile.plurality_scores
plurality_scores(ballots, active) ==
    [c \in active |-> votes_for(ballots, active, c)]

\* Profile.add_ballot: add to the first entry with that ranking, else append
add_ballot(ballots, n_voters, ballot) ==
    IF \E i \in DOMAIN ballots : ballots[i][2] = ballot
    THEN LET i == MinOf({j \in DOMAIN ballots : ballots[j][2] = ballot})
         IN [ballots EXCEPT ![i] = <<ballots[i][1] + n_voters, ballot>>]
    ELSE Append(ballots, <<n_voters, ballot>>)

\* the inner loop of apply_coalition for one coalition ballot: it has no break,
\* every entry with that ranking is decremented
subtract_ballot(ballots, coalition_ballot) ==
    [i \in DOMAIN ballots |->
        IF ballots[i][2] = coalition_ballot[2]
        THEN <<ballots[i][1] - coalition_ballot[1], ballots[i][2]>>
        ELSE ballots[i]]

RECURSIVE subtract_coalition(_, _)
subtract_coalition(ballots, coalition) ==
    IF coalition = <<>> THEN ballots
    ELSE subtract_coalition(subtract_ballot(ballots, Head(coalition)), Tail(coalition))

NonZero(entry) == entry[1] # 0

\* Profile.apply_coalition
apply_coalition(ballots, coalition, shared_vote) ==
    IF profile_len(coalition) = 0 THEN ballots
    ELSE add_ballot(SelectSeq(subtract_coalition(ballots, coalition), NonZero),
                    profile_len(coalition), shared_vote)

\* ---- stv_rule ----------------------------------------------------------------
\* a slip of the loop: the whole tie is recorded but one candidate is removed
RECURSIVE stv_rounds_keep_tied(_, _)
stv_rounds_keep_tied(ballots, active) ==
    IF active = {} THEN <<>>
    ELSE LET scores == plurality_scores(ballots, active)
             min_score == MinOf({scores[c] : c \in active})
             to_eliminate == {c \in active : scores[c] = min_score}
         IN <<to_eliminate>>
            \o stv_rounds_keep_tied(ballots, active \ {MinOf(to_eliminate)})

\* a slip of the loop: one lowest scorer is eliminated per round
RECURSIVE stv_rounds_one_by_one(_, _)
stv_rounds_one_by_one(ballots, active) ==
    IF active = {} THEN <<>>
    ELSE LET scores == plurality_scores(ballots, active)
             min_score == MinOf({scores[c] : c \in active})
             to_eliminate == {MinOf({c \in active : scores[c] = min_score})}
         IN <<to_eliminate>> \o stv_rounds_one_by_one(ballots, active \ to_eliminate)

\* the while loop of stv_rule: the rounds appended to elimination_order
RECURSIVE stv_rounds(_, _)
stv_rounds(ballots, active) ==
    IF active = {} THEN <<>>
    ELSE LET scores == plurality_scores(ballots, active)
             min_score == MinOf({scores[c] : c \in active})
             to_eliminate == {c \in active : scores[c] = min_score}
         IN <<to_eliminate>> \o stv_rounds(ballots, active \ to_eliminate)

\* Profile.stv_rule, for num_candidates >= 1
stv_rule(ballots, num_candidates) ==
    LET elimination_order == stv_rounds(ballots, 1..num_candidates)
    IN [winners |-> elimination_order[Len(elimination_order)],
        elimination_order |-> elimination_order]

\* ---- force_stv_winner ----------------------------------------------------
\* sorted(list(scores.values())): the scores in ascending order, with repeats
RECURSIVE sorted_scores(_, _)
sorted_scores(scores, cands) ==
    IF cands = {} THEN <<>>
    ELSE LET c == CHOOSE x \in cands : \A y \in cands : scores[x] <= scores[y]
         IN <<scores[c]>> \o sorted_scores(scores, cands \ {c})

\* a slip of line 151: the + 1 forgotten
savior_size_no_increment(spared, new_min_score, min_score) ==
    IF spared THEN new_min_score - min_score ELSE 0

\* a slip of lines 151-153: the size is computed in every round
savior_size_every_round(spared, new_min_score, min_score) ==
    new_min_score - min_score + 1

\* lines 151-153: the size appended to savior_sizes for the round
savior_size(spared, new_min_score, min_score) ==
    IF spared THEN new_min_score - min_score + 1 ELSE 0

\* the while loop of force_stv_winner: one record per round
RECURSIVE force_rounds(_, _, _)
force_rounds(ballots, alternative, active) ==
    IF Cardinality(active) <= 1 THEN <<>>
    ELSE LET scores == plurality_scores(ballots, active)
             score_list == sorted_scores(scores, active)
             min_score == MinOf(SeqRange(score_list))
             lowest == {c \in active : scores[c] = min_score}
             spared == alternative \in lowest
             new_min_score == MinOf(SeqRange(Tail(score_list)))
             to_eliminate ==
                 IF spared
                 THEN {c \in active : scores[c] = new_min_score} \ {alternative}
                 ELSE lowest
             round == [active |-> active,
                       scores |-> scores,
                       min_score |-> min_score,
                       spared |-> spared,
                       new_min_score |-> IF spared THEN new_min_score ELSE min_score,
                       to_eliminate |-> to_eliminate,
                       savior_size |->
                           savior_size(spared,
                                       IF spared THEN new_min_score ELSE min_score,
                                       min_score)]
         IN <<round>> \o force_rounds(ballots, alternative, active \ to_eliminate)

\* Profile.force_stv_winner: the savior sizes, read off the rounds
force_stv_winner(ballots, alternative) ==
    LET rounds == force_rounds(ballots, alternative, 1..NumCandidates)
    IN [i \in DOMAIN rounds |-> rounds[i].savior_size]

\* ---- take_n --------------------------------------------------------------
\* a slip of line 182: the straddling entry is kept whole
RECURSIVE take_n_no_split(_, _)
take_n_no_split(ballots, n) ==
    IF ballots = <<>> \/ n = 0 THEN <<>>
    ELSE IF Head(ballots)[1] >= n THEN <<Head(ballots)>>
    ELSE <<Head(ballots)>> \o take_n_no_split(Tail(ballots), n - Head(ballots)[1])

\* a slip of line 186: the size still to take is not reduced
RECURSIVE take_n_no_count(_, _)
take_n_no_count(ballots, n) ==
    IF ballots = <<>> \/ n = 0 THEN <<>>
    ELSE IF Head(ballots)[1] >= n THEN <<<<n, Head(ballots)[2]>>>>
    ELSE <<Head(ballots)>> \o take_n_no_count(Tail(ballots), n)

\* Profile.take_n
RECURSIVE take_n(_, _)
take_n(ballots, n) ==
    IF ballots = <<>> \/ n = 0 THEN <<>>
    ELSE IF Head(ballots)[1] >= n THEN <<<<n, Head(ballots)[2]>>>>
    ELSE <<Head(ballots)>> \o take_n(Tail(ballots), n - Head(ballots)[1])

\* ---- coalition search helpers ------------------------------------------------
\* one_alternative_first: alternative_one is met before alternative_two
RECURSIVE one_alternative_first(_, _, _)
one_alternative_first(rank, alternative_one, alternative_two) ==
    IF rank = <<>> THEN FALSE
    ELSE IF Head(rank) = alternative_one THEN TRUE
    ELSE IF Head(rank) = alternative_two THEN FALSE
    ELSE one_alternative_first(Tail(rank), alternative_one, alternative_two)

\* lower_ranked_ness: -1 per place before the alternative, +1 from it onwards
RECURSIVE badness_from(_, _, _)
badness_from(rank, alternative, turn) ==
    IF rank = <<>> THEN 0
    ELSE LET now == turn \/ Head(rank) = alternative
         IN (IF now THEN 1 ELSE -1) + badness_from(Tail(rank), alternative, now)

lower_ranked_ness(rank, alternative) == badness_from(rank, alternative, FALSE)

\* next(iter(s)) for a set of candidate numbers: CPython keeps small
\* non-negative integers of a set in ascending order (hash(i) = i, no collision
\* below the table size 8), so the first one iterated is the smallest
next_iter(s) == MinOf(s)

\* line 239: the representative of the STV winners
stv_winner(ballots) == next_iter(stv_rule(ballots, NumCandidates).winners)

\* profile.alternatives: the candidates the ballots name
alternatives(ballots) == UNION {SeqRange(ballots[i][2]) : i \in DOMAIN ballots}

\* the candidate numbers minimum_adjustment leaves out (line 197)
Excluded == {10, 11}

\* sorted(adjustments.items(), key = adjustment): stable, the dict is in the
\* set's (ascending) order, so ties keep the smaller candidate first
RECURSIVE sorted_adjustments(_, _)
sorted_adjustments(adjustment, cands) ==
    IF cands = {} THEN <<>>
    ELSE LET a == CHOOSE x \in cands : \A y \in cands :
                      \/ adjustment[x] < adjustment[y]
                      \/ (adjustment[x] = adjustment[y] /\ x <= y)
         IN <<<<a, adjustment[a]>>>> \o sorted_adjustments(adjustment, cands \ {a})

\* minimum_adjustment
minimum_adjustment(ballots) ==
    LET winner_set == stv_rule(ballots, NumCandidates).winners
        cands == (alternatives(ballots) \ winner_set) \ Excluded
        adjustment == [a \in cands |->
                          MaxOf(SeqRange(force_stv_winner(ballots, a)))]
    IN sorted_adjustments(adjustment, cands)

\* filter_ballots with the predicate of line 248
NotWinnerFirst(ballots, w, a) ==
    LET keep(entry) == ~one_alternative_first(entry[2], w, a)
    IN SelectSeq(ballots, keep)

\* order_ballots with the key of line 250: the key is a boolean, list.sort is
\* stable, so the entries with key False come first, each group in its order
order_by_badness(ballots, a) ==
    LET key(entry) == lower_ranked_ness(entry[2], a) = 0
        nokey(entry) == ~key(entry)
    IN SelectSeq(ballots, nokey) \o SelectSeq(ballots, key)

\* lines 246-250: the base coalition of candidate a
coalition_base(ballots, w, a) == order_by_badness(NotWinnerFirst(ballots, w, a), a)

\* line 242: the size reported when no coalition was found
NoCoalitionSize == 1000

\* line 244: the margin added to a candidate's adjustment
SearchMargin == 100

\* a slip of line 245: the cap by the best size so far is left out
start_size_uncapped(adjustment, best) == adjustment + SearchMargin

\* lines 244-245: the size the search of a candidate starts from
start_size(adjustment, best) ==
    IF adjustment + SearchMargin < best THEN adjustment + SearchMargin ELSE best

\* a slip of line 273: a smaller size is recorded whatever the test said
improves_unchecked(works, size, best) == size < best

\* line 273: the tested size is recorded as the new best
improves(works, size, best) == works /\ size < best

\* line 277: after a failed test, with size already decremented
skips_ahead(works, size, best) == ~works /\ best > size + 2

\* a slip of line 278: the size goes back to the one that just failed
skipped_size_same(size) == size + 1

\* line 278: the size after a skip, size being the decremented one
skipped_size(size) == size + 2

\* ---- state ----------------------------------------------------------------
VARIABLES
    ballots,            \* self.ballots of the profile operated on / searched
    call,               \* the last completed method call, its inputs and results
    pc,                 \* position of new_algorithm
    winner,             \* new_algorithm: winner (line 239)
    todo,               \* new_algorithm: the pairs of line 243 not yet visited
    a,                  \* new_algorithm: the candidate of the current iteration
    new_profile_base,   \* new_algorithm: new_profile_base.ballots
    min_adjustment,     \* new_algorithm: min_adjustment, the size tested next
    adjustment_works,   \* new_algorithm: adjustment_works
    minimum,            \* new_algorithm: minimum, the best size so far
    best_coalition,     \* new_algorithm: <<>> for None, else <<ballots>>
    best_for,           \* history: the candidate best_coalition was recorded for
    first_size,         \* history: the size the current candidate started from
    best_before,        \* history: minimum when the current candidate started
    tested,             \* history: the size the current candidate tested last, or 0
    tests               \* history: the number of sizes tested so far

vars == <<ballots, call, pc, winner, todo, a, new_profile_base, min_adjustment,
          adjustment_works, minimum, best_coalition, best_for, first_size,
          best_before, tested, tests>>

search_vars == <<pc, winner, todo, a, new_profile_base, min_adjustment,
                 adjustment_works, minimum, best_coalition, best_for, first_size,
                 best_before, tested, tests>>

NoCall == [op |-> "none"]

SearchIdle(at) ==
    /\ pc = at
    /\ winner = 0
    /\ todo = <<>>
    /\ a = 0
    /\ new_profile_base = <<>>
    /\ min_adjustment = 0
    /\ adjustment_works = FALSE
    /\ minimum = NoCoalitionSize
    /\ best_coalition = <<>>
    /\ best_for = 0
    /\ first_size = 0
    /\ best_before = NoCoalitionSize
    /\ tested = 0
    /\ tests = 0

\* ---- the Profile methods, each called once on a loaded profile -----------
Init ==
    /\ ballots \in Profiles
    /\ call = NoCall
    /\ SearchIdle("idle")

StvRule ==
    /\ pc = "idle" /\ call = NoCall
    /\ \E num_candidates \in 1..NumCandidates :
          LET r == stv_rule(ballots, num_candidates)
          IN call' = [op |-> "stv_rule",
                      num_candidates |-> num_candidates,
                      winners |-> r.winners,
                      elimination_order |-> r.elimination_order]
    /\ UNCHANGED <<ballots, search_vars>>

ForceStvWinner ==
    /\ pc = "idle" /\ call = NoCall
    /\ \E alternative \in Candidates :
          call' = [op |-> "force_stv_winner",
                   alternative |-> alternative,
                   rounds |-> force_rounds(ballots, alternative, 1..NumCandidates),
                   savior_sizes |-> force_stv_winner(ballots, alternative)]
    /\ UNCHANGED <<ballots, search_vars>>

TakeN ==
    /\ pc = "idle" /\ call = NoCall
    /\ \E n \in TakeSizes :
          /\ ballots' = take_n(ballots, n)
          /\ call' = [op |-> "take_n", n |-> n, before |-> ballots]
    /\ UNCHANGED search_vars

ApplyCoalition ==
    /\ pc = "idle" /\ call = NoCall
    /\ \E coalition \in Coalitions, shared_vote \in Rankings :
          /\ ballots' = apply_coalition(ballots, coalition, shared_vote)
          /\ call' = [op |-> "apply_coalition", coalition |-> coalition,
                      shared_vote |-> shared_vote, before |-> ballots]
    /\ UNCHANGED search_vars

Next == StvRule \/ ForceStvWinner \/ TakeN

Spec == Init /\ [][Next]_vars

\* apply_coalition, with the coalition and the shared vote as further inputs
NextApply == ApplyCoalition

SpecApply == Init /\ [][NextApply]_vars

\* ---- new_algorithm --------------------------------------------------------
InitSearch ==
    /\ ballots \in SearchProfiles
    /\ call = NoCall
    /\ SearchIdle("start")

\* lines 239-243: the winner, minimum = 1000, the candidates by adjustment
Start ==
    /\ pc = "start"
    /\ winner' = stv_winner(ballots)
    /\ todo' = minimum_adjustment(ballots)
    /\ pc' = "for"
    /\ UNCHANGED <<ballots, call, a, new_profile_base, min_adjustment,
                   adjustment_works, minimum, best_coalition, best_for,
                   first_size, best_before, tested, tests>>

\* lines 243-252: the next candidate, its starting size and base coalition
ForCandidate ==
    /\ pc = "for" /\ todo # <<>>
    /\ a' = Head(todo)[1]
    /\ todo' = Tail(todo)
    /\ min_adjustment' = start_size(Head(todo)[2], minimum)
    /\ new_profile_base' = coalition_base(ballots, winner, Head(todo)[1])
    /\ adjustment_works' = TRUE
    /\ first_size' = start_size(Head(todo)[2], minimum)
    /\ best_before' = minimum
    /\ tested' = 0
    /\ pc' = "while"
    /\ UNCHANGED <<ballots, call, winner, minimum, best_coalition, best_for, tests>>

\* lines 253-279: one pass of the while loop, the test of one size
TestSize ==
    /\ pc = "while" /\ adjustment_works /\ min_adjustment # 0
    /\ LET new_profile == take_n(new_profile_base, min_adjustment)
           new_testing_profile == apply_coalition(ballots, new_profile, <<a>>)
           new_winner == stv_winner(new_testing_profile)
           works == new_winner # winner
           record == improves(works, min_adjustment, minimum)
           best == IF record THEN min_adjustment ELSE minimum
           skip == skips_ahead(works, min_adjustment - 1, best)
       IN /\ minimum' = best
          /\ best_coalition' = IF record THEN <<new_profile>> ELSE best_coalition
          /\ best_for' = IF record THEN a ELSE best_for
          /\ min_adjustment' = IF skip THEN skipped_size(min_adjustment - 1)
                                       ELSE min_adjustment - 1
          /\ adjustment_works' = (works \/ skip)
          /\ tested' = min_adjustment
          /\ tests' = tests + 1
    /\ UNCHANGED <<ballots, call, pc, winner, todo, a, new_profile_base,
                   first_size, best_before>>

\* line 253: the loop condition fails, on to the next candidate
EndCandidate ==
    /\ pc = "while" /\ ~(adjustment_works /\ min_adjustment # 0)
    /\ pc' = "for"
    /\ UNCHANGED <<ballots, call, winner, todo, a, new_profile_base, min_adjustment,
                   adjustment_works, minimum, best_coalition, best_for, first_size,
                   best_before, tested, tests>>

\* line 281: return minimum, best_coalition
Return ==
    /\ pc = "for" /\ todo = <<>>
    /\ pc' = "done"
    /\ UNCHANGED <<ballots, call, winner, todo, a, new_profile_base, min_adjustment,
                   adjustment_works, minimum, best_coalition, best_for, first_size,
                   best_before, tested, tests>>

NextSearch == Start \/ ForCandidate \/ TestSize \/ EndCandidate \/ Return

SpecSearch == InitSearch /\ [][NextSearch]_vars

\* ---- properties of stv_rule -------------------------------------------------
Rounds(order) == DOMAIN order

\* C1: the elimination trace of stv_rule is a partition of 1..num_candidates
\* (non-empty, pairwise disjoint rounds whose union is every candidate) and
\* the winner set is the last round of the trace.
C1_TraceIsPartition ==
    call.op = "stv_rule" =>
        LET order == call.elimination_order
        IN /\ Len(order) >= 1
           /\ \A i \in Rounds(order) : order[i] # {}
           /\ \A i, j \in Rounds(order) : i # j => order[i] \cap order[j] = {}
           /\ UNION {order[i] : i \in Rounds(order)} = 1..call.num_candidates
           /\ call.winners = order[Len(order)]

\* stv_rule ran several rounds, one of them a tie of several candidates
C1_Witness ==
    /\ call.op = "stv_rule"
    /\ Len(call.elimination_order) >= 2
    /\ \E i \in Rounds(call.elimination_order) :
          Cardinality(call.elimination_order[i]) >= 2

\* C7 as stated: on a profile without ballot entries stv_rule returns an empty
\* elimination trace and an empty winner set.
C7_EmptyTrace ==
    (call.op = "stv_rule" /\ ballots = <<>>) =>
        (call.elimination_order = <<>> /\ call.winners = {})

\* C7 as amended: on a profile without ballot entries stv_rule ends after one
\* round in which every candidate (all scoring 0) is eliminated, so the trace
\* is that single round and the winner set is all of 1..num_candidates.
C7_SingleRoundOfAll ==
    (call.op = "stv_rule" /\ ballots = <<>>) =>
        /\ call.elimination_order = <<1..call.num_candidates>>
        /\ call.winners = 1..call.num_candidates

\* stv_rule was run on the profile without entries, with several candidates
C7_Witness ==
    /\ call.op = "stv_rule"
    /\ ballots = <<>>
    /\ call.num_candidates = NumCandidates

\* ---- properties of take_n -------------------------------------------------------
\* C5: take_n(n), n >= 0, on positive weights leaves total weight
\* min(n, total before), a prefix of the original entries in their order with
\* only the last kept entry possibly reduced; n = 0 leaves nothing and
\* n >= total leaves every entry unchanged.
C5_TakeNPrefix ==
    call.op = "take_n" =>
        LET before == call.before
            total == profile_len(before)
        IN /\ profile_len(ballots) = IF call.n < total THEN call.n ELSE total
           /\ Len(ballots) <= Len(before)
           /\ \A i \in DOMAIN ballots :
                 /\ ballots[i][2] = before[i][2]
                 /\ ballots[i][1] >= 1
                 /\ ballots[i][1] <= before[i][1]
                 /\ i < Len(ballots) => ballots[i] = before[i]
           /\ call.n = 0 => ballots = <<>>
           /\ call.n >= total => ballots = before

\* take_n kept the first entry whole and split a later one
C5_Witness ==
    /\ call.op = "take_n"
    /\ Len(ballots) >= 2
    /\ ballots[Len(ballots)][1] < call.before[Len(ballots)][1]

\* ---- properties of force_stv_winner ------------------------------------------
\* C6: for a candidate of the STV winner set, force_stv_winner records savior
\* size 0 in every round except possibly the last recorded one, and that one
\* only when the winner set is a tie of several candidates.
C6_WinnerNeedsNoSavior ==
    (/\ call.op = "force_stv_winner"
     /\ call.alternative \in stv_rule(ballots, NumCandidates).winners) =>
        \A i \in DOMAIN call.savior_sizes :
            call.savior_sizes[i] # 0 =>
                /\ i = Len(call.savior_sizes)
                /\ Cardinality(stv_rule(ballots, NumCandidates).winners) > 1

\* force_stv_winner ran several rounds for a member of a tied winner set and
\* the last round has a savior size
C6_Witness ==
    /\ call.op = "force_stv_winner"
    /\ call.alternative \in stv_rule(ballots, NumCandidates).winners
    /\ Len(call.savior_sizes) >= 2
    /\ call.savior_sizes[Len(call.savior_sizes)] # 0

\* the protected alternative is among the lowest scorers of the round
LowestInRound(round, alternative) ==
    /\ alternative \in round.active
    /\ \A c \in round.active : round.scores[alternative] <= round.scores[c]

\* C8 as stated: when the alternative is among the lowest scorers,
\* new_min_score is the next-higher distinct score, the eliminated candidates
\* are those at new_min_score, the savior size is
\* new_min_score - min_score + 1; in every other round the savior size is 0.
C8_NextDistinctScore ==
    call.op = "force_stv_winner" =>
        \A i \in DOMAIN call.rounds :
            LET round == call.rounds[i]
            IN IF LowestInRound(round, call.alternative)
               THEN /\ round.new_min_score > round.min_score
                    /\ round.new_min_score =
                           MinOf({round.scores[c] : c \in
                                     {d \in round.active :
                                         round.scores[d] > round.min_score}})
                    /\ round.to_eliminate =
                           {c \in round.active :
                               round.scores[c] = round.new_min_score}
                    /\ call.savior_sizes[i] =
                           round.new_min_score - round.min_score + 1
               ELSE call.savior_sizes[i] = 0

\* C8 as amended: when the alternative is among the lowest scorers,
\* new_min_score is the lowest score of the OTHER active candidates (equal to
\* min_score when one of them ties with the alternative, else the next-higher
\* score), the eliminated candidates are the others at new_min_score, the
\* savior size is new_min_score - min_score + 1; in every other round it is 0.
C8_LowestOtherScore ==
    call.op = "force_stv_winner" =>
        \A i \in DOMAIN call.rounds :
            LET round == call.rounds[i]
                others == round.active \ {call.alternative}
            IN IF LowestInRound(round, call.alternative)
               THEN /\ round.min_score = round.scores[call.alternative]
                    /\ round.new_min_score = MinOf({round.scores[c] : c \in others})
                    /\ round.new_min_score >= round.min_score
                    /\ round.to_eliminate =
                           {c \in others : round.scores[c] = round.new_min_score}
                    /\ call.savior_sizes[i] =
                           round.new_min_score - round.min_score + 1
               ELSE call.savior_sizes[i] = 0

\* a round spared the alternative while another candidate tied with it at the
\* minimum, and another round spared it with every other candidate above it
C8_Witness ==
    /\ call.op = "force_stv_winner"
    /\ \E i \in DOMAIN call.rounds :
          /\ LowestInRound(call.rounds[i], call.alternative)
          /\ call.rounds[i].new_min_score = call.rounds[i].min_score
    /\ \E i \in DOMAIN call.rounds :
          /\ LowestInRound(call.rounds[i], call.alternative)
          /\ call.rounds[i].new_min_score > call.rounds[i].min_score

\* ---- properties of apply_coalition ------------------------------------------
\* the subtraction as C4 states it: only the first entry with the ranking
claimed_subtract_ballot(entries, coalition_ballot) ==
    IF \E i \in DOMAIN entries : entries[i][2] = coalition_ballot[2]
    THEN LET i == MinOf({j \in DOMAIN entries : entries[j][2] = coalition_ballot[2]})
         IN [entries EXCEPT ![i] = <<entries[i][1] - coalition_ballot[1], entries[i][2]>>]
    ELSE entries

RECURSIVE claimed_subtract_coalition(_, _)
claimed_subtract_coalition(entries, coalition) ==
    IF coalition = <<>> THEN entries
    ELSE claimed_subtract_coalition(claimed_subtract_ballot(entries, Head(coalition)),
                                    Tail(coalition))

\* C4: apply_coalition with a coalition of non-zero total weight subtracts each
\* coalition entry's weight from the first parent entry with the same ranking
\* and from no other entry, leaves the entries alone when none matches, then
\* removes the zero-weight entries and merges one entry of the coalition's
\* total weight under shared_vote via add_ballot.
C4_FirstMatchOnly ==
    (call.op = "apply_coalition" /\ profile_len(call.coalition) # 0) =>
        ballots = add_ballot(
                      SelectSeq(claimed_subtract_coalition(call.before, call.coalition),
                                NonZero),
                      profile_len(call.coalition), call.shared_vote)

\* ---- properties of new_algorithm ------------------------------------------------
Returned == pc = "done" /\ best_coalition # <<>>

\* C2: a returned coalition was recorded for some candidate a, and applying it
\* with [a] as shared vote to the original profile and re-running stv_rule
\* gives a winner other than the original one.
C2_ReturnedCoalitionFlips ==
    Returned =>
        /\ best_for \in alternatives(ballots)
        /\ winner = stv_winner(ballots)
        /\ stv_winner(apply_coalition(ballots, best_coalition[1], <<best_for>>))
               # stv_winner(ballots)

\* a coalition smaller than its candidate's whole base coalition is returned
C2_Witness ==
    /\ Returned
    /\ profile_len(best_coalition[1])
           < profile_len(coalition_base(ballots, winner, best_for))

\* C3 as stated: the search of a candidate only moves downward from its
\* starting size min(adjustment + 100, best so far), so no size tested or
\* recorded for the candidate exceeds that starting size.
C3_NeverAboveStart ==
    pc = "while" => (tested <= first_size /\ min_adjustment <= first_size)

\* C3 as amended: a failed test moves the size one above the failed one, so
\* tested sizes may exceed the starting size, but every size tested for a
\* candidate is at most the best size known when it is tested (hence at most
\* the best size known when the candidate's search started), and the recorded
\* best size never exceeds that one either.
C3_NeverAboveBest ==
    pc = "while" =>
        /\ tested <= best_before
        /\ minimum <= best_before
        /\ min_adjustment <= minimum

\* a size above the candidate's starting size was tested
C3_Witness ==
    /\ pc = "while"
    /\ tested > first_size
    /\ first_size < best_before

\* C10: the returned size is the total weight of the returned coalition
\* profile, also when sizes larger than the base coalition were tested.
C10_SizeIsCoalitionWeight ==
    Returned => minimum = profile_len(best_coalition[1])

\* the coalition was returned for the last candidate, whose search started
\* from a size larger than its whole base coalition
C10_Witness ==
    /\ Returned
    /\ a = best_for
    /\ first_size > profile_len(new_profile_base)
    /\ minimum = profile_len(new_profile_base)

\* the while loop of line 253 is about to test a size
Testing == pc = "while" /\ adjustment_works /\ min_adjustment # 0

LoopBase == NoCoalitionSize + 2

\* a number that every pass of the while loop lowers: the best size counts
\* most, then the distance of the next size below it (a size equal to the best
\* one counts as the farthest)
LoopVariant ==
    IF ~Testing THEN 0
    ELSE 1 + minimum * LoopBase
           + (IF minimum = min_adjustment THEN LoopBase - 1
              ELSE minimum - min_adjustment)

\* a number that every step of new_algorithm lowers: the candidates still to
\* visit count most, then the position in the current candidate's search
Variant ==
    IF pc = "done" THEN 0
    ELSE IF pc = "start" THEN (NumCandidates + 1) * LoopBase * LoopBase
    ELSE Len(todo) * LoopBase * LoopBase
           + (IF pc = "for" THEN 1 ELSE 2 + LoopVariant)

\* C9: new_algorithm terminates on every profile: every step it takes
\* (each tested size included, forward skips too) strictly lowers a natural
\* number, so only finitely many sizes are tested, it stops only once it has
\* returned, and the best-known size never increases on the way.
C9_Terminates ==
    /\ [](pc \in {"start", "for", "while", "done"})
    /\ [](Variant >= 0 /\ (Testing => min_adjustment <= minimum))
    /\ [][/\ Variant' < Variant
          /\ minimum' <= minimum
          /\ (pc = "while" /\ pc' = "while") => tests' = tests + 1]_vars

\* the search returned after a candidate's sizes had moved upward
C9_Witness ==
    /\ pc = "done"
    /\ tests > NoCoalitionSize
    /\ tested > first_size

====
